---- MODULE Spec2Model ----
(***************************************************************************)
(* Model of the backend core of technosaran/final-year:                    *)
(*   - utils.RateLimiter (sliding-window admission, utils.py)              *)
(*   - rate limiter called from several threads (step-level interleaving)  *)
(*   - services.ai_summary.AISummaryService (model-load state machine and  *)
(*     summarize_text, run as asyncio coroutines plus executor jobs)       *)
(*   - analyze_calendar_efficiency, extract_tasks, categorize_file,        *)
(*     calculate_productivity_score and sanitize_filename (pure functions) *)
(*   - main.rate_limit_middleware and utils.retry_with_backoff             *)
(***************************************************************************)
EXTENDS Integers, Sequences, FiniteSets, TLC

(* ------------------------------------------------------------------ *)
(* Bounds of the model                                                  *)
(* ------------------------------------------------------------------ *)
\* RateLimiter(max_requests, window_seconds): constructor parameters
max_requests == 2
window_seconds == 3
\* largest clock value, number of recorded is_allowed calls
MaxTime == 5
MaxCalls == 5
\* number of is_allowed calls made by the racing threads
MaxThreadCalls == 3
\* number of summarize_text calls
MaxSummarize == 3
\* number of summarize_text calls when the texts are varied
MaxSumCalls == 1
MaxEvents == 10
\* arguments of calculate_productivity_score
MaxMeetings == 11
MaxFocus == 3
MaxEmails == 11
MaxTasks == 6
\* longest name and extension passed to sanitize_filename
MaxNameLen == 300
MaxExtLen == 300
\* largest max_retries and backoff_factor given to retry_with_backoff
MaxRetries == 3
\* number of HTTP requests
MaxHttp == 4
MaxBackoff == 2
\* a max_length below the default
SmallMaxLength == 55

\* ai_summary.py:18  ml_executor = ThreadPoolExecutor(max_workers=2)
MlWorkers == 2
\* utils.py:16  thread_pool = ThreadPoolExecutor(max_workers=4)
PoolWorkers == 4

Keys == {"k1", "k2"}
Threads == {"t1", "t2"}
\* coroutines on the event loop: the task created by __init__ and the
\* request handlers that call summarize_text
Callers == {"c1", "c2"}
Procs == {"task"} \cup Callers

VARIABLES
    requests,   \* RateLimiter.requests: key -> sequence of timestamps (keys seen so far)
    clock,      \* datetime.utcnow()
    calls,      \* history of completed is_allowed calls (sequential callers)
    tpc,        \* thread -> position inside is_allowed
    tkey,       \* thread -> argument key
    tnow,       \* thread -> local `now`
    tlist,      \* thread -> list built by the comprehension, not yet stored
    tret,       \* history of is_allowed returns of the threads
    summarizer,     \* self.summarizer is set (not None)
    classifier,     \* self.classifier is set (not None)
    models_loaded,  \* self._models_loaded
    loading,        \* self._loading
    pc,             \* coroutine -> where it is suspended
    ljob,           \* coroutine -> its _load_models_sync job on ml_executor
    ijob,           \* caller -> its _summarize_sync job on thread_pool
    iscore,         \* caller -> score its finished job reported (tenths, -1: none)
    result,         \* caller -> its last summarize_text call: outcome (out), summary,
                    \*           confidence in tenths, arguments, and the model state
                    \*           (at) and handle when the call was made
    task_at,        \* model state when the background task started running
    load_attempts,  \* number of _load_models_sync jobs submitted
    load_failures,  \* number of load attempts that raised
    ncalls,         \* number of summarize_text calls made
    analysis,       \* the last analyze_calendar_efficiency call: its events and
                    \*           the dict it returned
    ucall,          \* the last call of a pure function: name, arguments, value
    served,         \* history of HTTP requests seen by rate_limit_middleware
    retry           \* the current call of a retry_with_backoff wrapper: its
                    \*           parameters, loop variable, position, the outcomes
                    \*           of the attempts and the sleeps made so far

thvars == <<tpc, tkey, tnow, tlist, tret>>
aivars == <<summarizer, classifier, models_loaded, loading, pc, ljob, ijob,
            iscore, result, task_at, load_attempts, load_failures, ncalls>>
vars == <<requests, clock, calls, tpc, tkey, tnow, tlist, tret,
          summarizer, classifier, models_loaded, loading, pc, ljob, ijob,
          iscore, result, task_at, load_attempts, load_failures, ncalls,
          analysis, ucall, served, retry>>
utilvars == <<ucall, served, retry>>

(* ------------------------------------------------------------------ *)
(* RateLimiter                                                          *)
(* ------------------------------------------------------------------ *)
\* utils.py:219-220  if key not in self.requests: self.requests[key] = []
EnsureKey(reqs, key) ==
    IF key \in DOMAIN reqs THEN reqs ELSE reqs @@ (key :> <<>>)

\* variants of Prune: comparison inverted / boundary entry (age = window) kept
Prune_inverted(log, now) ==
    SelectSeq(log, LAMBDA req_time : now - req_time > window_seconds)

Prune_keeps_boundary(log, now) ==
    SelectSeq(log, LAMBDA req_time : now - req_time <= window_seconds)

\* utils.py:223-226  keep req_time with now - req_time < timedelta(window_seconds)
Prune(log, now) ==
    SelectSeq(log, LAMBDA req_time : now - req_time < window_seconds)

\* variant of UnderLimit: off by one
UnderLimit_off_by_one(log) == Len(log) <= max_requests

\* utils.py:229  len(self.requests[key]) < self.max_requests
UnderLimit(log) == Len(log) < max_requests

\* total number of timestamps held for all keys
RECURSIVE TotalRetained(_, _)
TotalRetained(reqs, ks) ==
    IF ks = {} THEN 0
    ELSE LET k == CHOOSE x \in ks : TRUE
         IN  Len(reqs[k]) + TotalRetained(reqs, ks \ {k})

\* variant of is_allowed: the limit is applied to all keys together
is_allowed_shared_quota(reqs, key, now) ==
    LET r0 == EnsureKey(reqs, key)
        pruned == Prune(r0[key], now)
        r1 == [r0 EXCEPT ![key] = pruned]
    IN  IF TotalRetained(r1, DOMAIN r1) < max_requests
        THEN [requests |-> [r0 EXCEPT ![key] = Append(pruned, now)], result |-> TRUE]
        ELSE [requests |-> r1, result |-> FALSE]

\* variant of is_allowed: a rejected call is logged too
is_allowed_logs_rejections(reqs, key, now) ==
    LET r0 == EnsureKey(reqs, key)
        pruned == Prune(r0[key], now)
    IN  [requests |-> [r0 EXCEPT ![key] = Append(pruned, now)],
         result |-> UnderLimit(pruned)]

\* utils.py:215-233  the whole call: new dictionary and returned boolean
is_allowed(reqs, key, now) ==
    LET r0 == EnsureKey(reqs, key)
        pruned == Prune(r0[key], now)
    IN  IF UnderLimit(pruned)
        THEN [requests |-> [r0 EXCEPT ![key] = Append(pruned, now)], result |-> TRUE]
        ELSE [requests |-> [r0 EXCEPT ![key] = pruned], result |-> FALSE]

\* the log the limiter holds for a key (empty when the key was never seen)
LogOf(reqs, key) == IF key \in DOMAIN reqs THEN reqs[key] ELSE <<>>

RLInit ==
    /\ requests = << >>
    /\ clock = 0
    /\ calls = << >>

THInit ==
    /\ tpc = [t \in Threads |-> "idle"]
    /\ tkey = [t \in Threads |-> "k1"]
    /\ tnow = [t \in Threads |-> 0]
    /\ tlist = [t \in Threads |-> << >>]
    /\ tret = << >>

\* ai_summary.py:24-32  AISummaryService.__init__
AIInit ==
    /\ summarizer = FALSE
    /\ classifier = FALSE
    /\ models_loaded = FALSE
    /\ loading = FALSE
    /\ pc = [p \in Procs |-> IF p = "task" THEN "scheduled" ELSE "idle"]
    /\ ljob = [p \in Procs |-> "none"]
    /\ ijob = [c \in Callers |-> "none"]
    /\ iscore = [c \in Callers |-> -1]
    /\ result = [c \in Callers |->
                    [out |-> "none", at |-> "none", handle |-> FALSE, text |-> << >>,
                     max_length |-> 0, summary |-> << >>, score |-> -1,
                     confidence |-> 0]]
    /\ task_at = "none"
    /\ load_attempts = 0
    /\ load_failures = 0
    /\ ncalls = 0

\* analyze_calendar_efficiency has not been called
CalInit == analysis = [called |-> FALSE, events |-> << >>, ret |-> [suggestions |-> << >>]]

\* no pure function has been called
UtilInit == ucall = [fn |-> "none"]

\* no wrapper of retry_with_backoff has been called
RetryInit ==
    retry = [pc |-> "idle", max_retries |-> 0, backoff_factor |-> 0, attempt |-> 0,
             outcomes |-> << >>, sleeps |-> << >>, result |-> "none"]

\* no HTTP request has arrived
HttpInit == served = << >>

Init == RLInit /\ THInit /\ AIInit /\ CalInit /\ UtilInit /\ RetryInit /\ HttpInit

\* time passes between calls (datetime.utcnow() read at utils.py:217)
Tick ==
    /\ clock < MaxTime
    /\ clock' = clock + 1
    /\ UNCHANGED <<requests, calls>>
    /\ UNCHANGED thvars
    /\ UNCHANGED <<aivars, analysis, utilvars>>

\* one complete is_allowed(key) call made at the current time
Call_is_allowed(key) ==
    /\ Len(calls) < MaxCalls
    /\ LET r == is_allowed(requests, key, clock)
       IN  /\ requests' = r.requests
           /\ calls' = Append(calls, [key |-> key, now |-> clock,
                                      pre |-> LogOf(requests, key),
                                      post |-> r.requests[key],
                                      result |-> r.result])
    /\ UNCHANGED clock
    /\ UNCHANGED thvars
    /\ UNCHANGED <<aivars, analysis, utilvars>>

Next ==
    \/ Tick
    \/ \E key \in Keys : Call_is_allowed(key)

Spec == Init /\ [][Next]_vars

(* ------------------------------------------------------------------ *)
(* RateLimiter.is_allowed called from several threads: the method holds *)
(* no lock, so its statements interleave (utils.py:215-233)             *)
(* ------------------------------------------------------------------ *)
\* utils.py:215-217  a thread enters is_allowed(key) and reads the clock
T_enter(t, key) ==
    /\ tpc[t] = "idle"
    /\ Len(tret) + Cardinality({u \in Threads : tpc[u] # "idle"}) < MaxThreadCalls
    /\ tpc' = [tpc EXCEPT ![t] = "ensure_key"]
    /\ tkey' = [tkey EXCEPT ![t] = key]
    /\ tnow' = [tnow EXCEPT ![t] = clock]
    /\ UNCHANGED <<requests, clock, calls, tlist, tret>>
    /\ UNCHANGED <<aivars, analysis, utilvars>>

\* utils.py:219-220  create the key's list when absent
T_ensure_key(t) ==
    /\ tpc[t] = "ensure_key"
    /\ requests' = EnsureKey(requests, tkey[t])
    /\ tpc' = [tpc EXCEPT ![t] = "prune_build"]
    /\ UNCHANGED <<clock, calls, tkey, tnow, tlist, tret>>
    /\ UNCHANGED <<aivars, analysis, utilvars>>

\* utils.py:223-226  the comprehension builds the pruned list
T_prune_build(t) ==
    /\ tpc[t] = "prune_build"
    /\ tlist' = [tlist EXCEPT ![t] = Prune(requests[tkey[t]], tnow[t])]
    /\ tpc' = [tpc EXCEPT ![t] = "prune_store"]
    /\ UNCHANGED <<requests, clock, calls, tkey, tnow, tret>>
    /\ UNCHANGED <<aivars, analysis, utilvars>>

\* utils.py:223  self.requests[key] = <the built list>
T_prune_store(t) ==
    /\ tpc[t] = "prune_store"
    /\ requests' = [requests EXCEPT ![tkey[t]] = tlist[t]]
    /\ tpc' = [tpc EXCEPT ![t] = "check"]
    /\ UNCHANGED <<clock, calls, tkey, tnow, tlist, tret>>
    /\ UNCHANGED <<aivars, analysis, utilvars>>

\* utils.py:229, 233  the limit test; over the limit: return False
T_check(t) ==
    /\ tpc[t] = "check"
    /\ IF UnderLimit(requests[tkey[t]])
       THEN /\ tpc' = [tpc EXCEPT ![t] = "append"]
            /\ UNCHANGED tret
       ELSE /\ tpc' = [tpc EXCEPT ![t] = "idle"]
            /\ tret' = Append(tret, [key |-> tkey[t], now |-> tnow[t], result |-> FALSE])
    /\ UNCHANGED <<requests, clock, calls, tkey, tnow, tlist>>
    /\ UNCHANGED <<aivars, analysis, utilvars>>

\* utils.py:230-231  self.requests[key].append(now); return True
T_append(t) ==
    /\ tpc[t] = "append"
    /\ requests' = [requests EXCEPT ![tkey[t]] = Append(@, tnow[t])]
    /\ tpc' = [tpc EXCEPT ![t] = "idle"]
    /\ tret' = Append(tret, [key |-> tkey[t], now |-> tnow[t], result |-> TRUE])
    /\ UNCHANGED <<clock, calls, tkey, tnow, tlist>>
    /\ UNCHANGED <<aivars, analysis, utilvars>>

\* time passes while threads are inside is_allowed
T_tick ==
    /\ clock < MaxTime
    /\ clock' = clock + 1
    /\ UNCHANGED <<requests, calls>>
    /\ UNCHANGED thvars
    /\ UNCHANGED <<aivars, analysis, utilvars>>

NextThreads ==
    \/ T_tick
    \/ \E t \in Threads, key \in Keys : T_enter(t, key)
    \/ \E t \in Threads : T_ensure_key(t)
    \/ \E t \in Threads : T_prune_build(t)
    \/ \E t \in Threads : T_prune_store(t)
    \/ \E t \in Threads : T_check(t)
    \/ \E t \in Threads : T_append(t)

SpecThreads == Init /\ [][NextThreads]_vars

\* C2: concurrent is_allowed calls on one key behave as if run one after
\* another: no key's log ever holds more than max_requests timestamps, and
\* the calls admitted for a key with timestamps inside any one window
\* number at most max_requests (with one slot left, at most one of two
\* racing calls is admitted).
C2_CallsSerialized ==
    /\ \A k \in DOMAIN requests : Len(requests[k]) <= max_requests
    /\ \A k \in Keys, t \in 0..MaxTime :
          Cardinality({i \in DOMAIN tret :
                          /\ tret[i].key = k
                          /\ tret[i].result
                          /\ t - window_seconds < tret[i].now
                          /\ tret[i].now <= t}) <= max_requests

(* ------------------------------------------------------------------ *)
(* Text handling: a text is a sequence of one-character strings         *)
(* ------------------------------------------------------------------ *)
\* ai_summary.py:96  default of max_length
DefaultMaxLength == 150
\* ai_summary.py:111  texts whose cleaned length is below this are returned as they are
ShortLimit == 50

\* n copies of the character ch
Rep(ch, n) == [i \in 1..n |-> ch]

\* the characters Python's \s and str.strip() treat as whitespace
IsSpace(ch) == ch \in {" ", "\n", "\t"}

\* characters of the texts used here that lie outside the class of the URL
\* pattern, utils.py:44 ([a-zA-Z], [0-9], [$-_@.&+], [!*\(\),]); the double
\* quote and the backquote, also outside it, occur in no text of the model
NonUrlChars == {" ", "\n", "\t", "#", "{", "|", "}", "~"}

\* s[i..] starts with pat
StartsAt(s, pat, i) ==
    /\ i >= 1
    /\ i + Len(pat) - 1 <= Len(s)
    /\ \A k \in 1..Len(pat) : s[i + k - 1] = pat[k]

\* least index >= from at which pat occurs in s, or 0
FindSub(s, pat, from) ==
    LET hits == {i \in from..Len(s) : StartsAt(s, pat, i)}
    IN  IF hits = {} THEN 0 ELSE CHOOSE i \in hits : \A j \in hits : i <= j

\* the part of s from index i on
From(s, i) == SubSeq(s, i, Len(s))

\* least element of a non-empty set of integers
Least(S) == CHOOSE i \in S : \A j \in S : i <= j

\* utils.py:34  re.sub(r'<[^>]+>', '', text): an opening angle bracket, one
\* or more characters other than the closing one, and the closing one; the
\* leftmost such match is removed and the scan goes on behind it
RECURSIVE StripTags(_)
StripTags(s) ==
    LET opens == {i \in 1..Len(s) : s[i] = "<" /\ FindSub(s, <<">">>, i + 1) >= i + 2}
    IN  IF opens = {} THEN s
        ELSE LET i == Least(opens)
             IN  SubSeq(s, 1, i - 1)
                     \o StripTags(From(s, FindSub(s, <<">">>, i + 1) + 1))

\* index of the first character after position i that is no whitespace
SpaceRunEnd(s, i) ==
    LET stops == {k \in (i + 1)..Len(s) : ~IsSpace(s[k])}
    IN  IF stops = {} THEN Len(s) + 1 ELSE Least(stops)

\* utils.py:37  re.sub(r'\s+', ' ', text): each run of whitespace becomes one space
RECURSIVE CollapseSpaces(_)
CollapseSpaces(s) ==
    LET spaces == {i \in 1..Len(s) : IsSpace(s[i])}
    IN  IF spaces = {} THEN s
        ELSE LET i == Least(spaces)
             IN  SubSeq(s, 1, i - 1) \o <<" ">>
                     \o CollapseSpaces(From(s, SpaceRunEnd(s, i)))

\* utils.py:40  re.sub(r'From:.*?Subject:.*?\n', '', text, flags=re.DOTALL)
RECURSIVE StripHeaders(_)
StripHeaders(s) ==
    LET f == FindSub(s, <<"F", "r", "o", "m", ":">>, 1)
        su == IF f = 0 THEN 0
              ELSE FindSub(s, <<"S", "u", "b", "j", "e", "c", "t", ":">>, f + 5)
        nl == IF su = 0 THEN 0 ELSE FindSub(s, <<"\n">>, su + 8)
    IN  IF nl = 0 THEN s
        ELSE SubSeq(s, 1, f - 1) \o StripHeaders(From(s, nl + 1))

\* utils.py:41  re.sub(r'--\s*\n.*', '', text, flags=re.DOTALL): from the first
\* double hyphen that is followed by whitespace holding a newline, everything
\* is dropped
StripSignature(s) ==
    LET sigs == {i \in 1..Len(s) :
                    /\ StartsAt(s, <<"-", "-">>, i)
                    /\ \E k \in (i + 2)..(SpaceRunEnd(s, i + 1) - 1) : s[k] = "\n"}
    IN  IF sigs = {} THEN s
        ELSE SubSeq(s, 1, (CHOOSE i \in sigs : \A j \in sigs : i <= j) - 1)

\* length of the URL prefix (http:// or https://) at s[i..], or 0
UrlPrefix(s, i) ==
    IF StartsAt(s, <<"h", "t", "t", "p", "s", ":", "/", "/">>, i) THEN 8
    ELSE IF StartsAt(s, <<"h", "t", "t", "p", ":", "/", "/">>, i) THEN 7
    ELSE 0

\* index of the first character from position i on that cannot be part of a URL
UrlRunEnd(s, i) ==
    LET stops == {k \in i..Len(s) : s[k] \in NonUrlChars}
    IN  IF stops = {} THEN Len(s) + 1 ELSE CHOOSE k \in stops : \A j \in stops : k <= j

\* utils.py:44  re.sub(r'http[s]?://(?:...)+', '', text): the prefix and the
\* run of one or more URL characters behind it
RECURSIVE StripUrls(_)
StripUrls(s) ==
    LET urls == {i \in 1..Len(s) :
                    /\ s[i] = "h"
                    /\ UrlPrefix(s, i) > 0
                    /\ UrlRunEnd(s, i + UrlPrefix(s, i)) > i + UrlPrefix(s, i)}
    IN  IF urls = {} THEN s
        ELSE LET i == Least(urls)
             IN  SubSeq(s, 1, i - 1)
                     \o StripUrls(From(s, UrlRunEnd(s, i + UrlPrefix(s, i))))

\* str.strip(): leading and trailing whitespace removed
Strip(s) ==
    LET inked == {i \in 1..Len(s) : ~IsSpace(s[i])}
    IN  IF inked = {} THEN << >>
        ELSE SubSeq(s, CHOOSE i \in inked : \A j \in inked : i <= j,
                       CHOOSE i \in inked : \A j \in inked : i >= j)

\* variant of clean_text: the text is only stripped
clean_text_strip_only(text) == Strip(text)

\* utils.py:28-46  clean_text
clean_text(text) ==
    IF text = << >> THEN << >>
    ELSE Strip(StripUrls(StripSignature(StripHeaders(CollapseSpaces(StripTags(text))))))

\* variant of IsBlank: only the empty text counts as blank
IsBlank_empty_only(text) == text = << >>

\* ai_summary.py:100  not text or not text.strip()
IsBlank(text) == text = << >> \/ Strip(text) = << >>

\* s[:n] for n >= 0
Prefix(s, n) == SubSeq(s, 1, IF n < Len(s) THEN n ELSE Len(s))

\* variant of Truncate: the marker is appended always
Truncate_always_marks(s, max_length) == Prefix(s, max_length) \o <<".", ".", ".">>

\* ai_summary.py:124, 147  s[:max_length] + '...' if len(s) > max_length else s
Truncate(s, max_length) ==
    IF Len(s) > max_length THEN Prefix(s, max_length) \o <<".", ".", ".">> ELSE s

(* ------------------------------------------------------------------ *)
(* AISummaryService: coroutines run on one event loop and are atomic    *)
(* between awaits; executor jobs run on worker threads                  *)
(* ------------------------------------------------------------------ *)
nonai == <<requests, clock, calls, tpc, tkey, tnow, tlist, tret>>

\* the model state of the specification, read off the service's fields
ModelState ==
    IF models_loaded THEN "Ready"
    ELSE IF loading THEN "Loading"
    ELSE IF load_failures > 0 THEN "Failed"
    ELSE "Unloaded"

\* variants of LoadGuard: one of the two flags is not consulted
LoadGuard_ignores_loading == models_loaded

LoadGuard_ignores_loaded == loading

\* ai_summary.py:36  if self._loading or self._models_loaded: return
LoadGuard == loading \/ models_loaded

\* ai_summary.py:39-46  self._loading = True; submit _load_models_sync to
\* ml_executor and await it
BeginLoad(p) ==
    /\ loading' = TRUE
    /\ ljob' = [ljob EXCEPT ![p] = "queued"]
    /\ load_attempts' = load_attempts + 1

\* ai_summary.py:48-55  after the await: success sets _models_loaded, an
\* exception is logged; finally self._loading = False
FinishLoad(p) ==
    /\ models_loaded' = (models_loaded \/ ljob[p] = "ok")
    /\ load_failures' = IF ljob[p] = "fail" THEN load_failures + 1 ELSE load_failures
    /\ loading' = FALSE
    /\ ljob' = [ljob EXCEPT ![p] = "none"]

\* one text of each kind: blank, cleaned length < 50, cleaned length >= 50
CtlTexts == {<< >>, Rep("a", 10), Rep("a", 60)}

\* input texts: empty, whitespace only, markup only, 49 characters, short
\* with markup, long markup hiding a short text, cleaned length exactly 50,
\* 300 times A, long with markup, whitespace and a URL
Texts ==
    { << >>,
      <<" ", "\n", "\t">>,
      <<"<", "b", ">">>,
      Rep("a", 49),
      <<" ", "<", "b", ">">> \o Rep("a", 5) \o <<" ", "\n", " ">> \o Rep("b", 3),
      <<"<">> \o Rep("a", 60) \o <<">">> \o Rep("b", 5),
      <<" ">> \o Rep("a", 50) \o <<" ">>,
      Rep("A", 300),
      <<"<", "b", ">">> \o Rep("a", 70) \o <<" ", "\n", " ">> \o Rep("b", 90)
          \o <<" ", "h", "t", "t", "p", ":", "/", "/", "x", ".", "y">> }

\* clean_text and the blank test of line 100 for the texts above, computed once
CleanedOf == [t \in CtlTexts \cup Texts |-> clean_text(t)]

BlankOf == [t \in CtlTexts \cup Texts |-> IsBlank(t)]

\* the value a finished summarize_text call returned, with its arguments,
\* the model state and the handle at the time of the call, and the score
\* the model reported (tenths, -1: none)
Resp(out, text, max_length, summary, confidence) ==
    [out |-> out, at |-> ModelState, handle |-> summarizer, text |-> text,
     max_length |-> max_length, summary |-> summary, score |-> -1,
     confidence |-> confidence]

\* the summary_text the model produces (opaque)
ModelSummary == <<"S">>
\* the score the model reports with its summary, in tenths; -1: it reports none
ModelScores == {-1, 0, 10}

\* variant of ExceptBranch: the exception leaves summarize_text
ExceptBranch_reraises(rec) == [rec EXCEPT !.out = "raised"]

\* ai_summary.py:144-152  except Exception: text[:max_length] (+ '...'),
\* confidence 0.0 (tenths: 0)
ExceptBranch(rec) ==
    [rec EXCEPT !.out = "error",
                !.summary = Truncate(rec.text, rec.max_length),
                !.confidence = 0]

\* variant of FallbackBranch: confidence 0.0 as in the except branch
FallbackBranch_zero_confidence(rec) ==
    [rec EXCEPT !.out = "fallback",
                !.summary = Truncate(CleanedOf[rec.text], rec.max_length),
                !.confidence = 0]

\* ai_summary.py:122-129  no summarizer: cleaned_text[:max_length] (+ '...'),
\* confidence 0.5 (tenths: 5)
FallbackBranch(rec) ==
    [rec EXCEPT !.out = "fallback",
                !.summary = Truncate(CleanedOf[rec.text], rec.max_length),
                !.confidence = 5]

\* ai_summary.py:122-133  no summarizer: truncation fallback; otherwise
\* dispatch _summarize_sync (run_in_thread -> utils.thread_pool); a dispatch
\* that raises (pool shut down) lands in the except branch
Line122(c, rec, dispatched) ==
    IF ~summarizer
    THEN /\ result' = [result EXCEPT ![c] = FallbackBranch(rec)]
         /\ pc' = [pc EXCEPT ![c] = "idle"]
         /\ UNCHANGED ijob
    ELSE IF ~dispatched
    THEN /\ result' = [result EXCEPT ![c] = ExceptBranch(rec)]
         /\ pc' = [pc EXCEPT ![c] = "idle"]
         /\ UNCHANGED ijob
    ELSE /\ result' = [result EXCEPT ![c] = rec]
         /\ pc' = [pc EXCEPT ![c] = "await_infer"]
         /\ ijob' = [ijob EXCEPT ![c] = "queued"]

\* ai_summary.py:32, 34-46  the task created by __init__ starts running
TaskStart ==
    /\ pc["task"] = "scheduled"
    /\ task_at' = ModelState
    /\ IF LoadGuard
       THEN /\ pc' = [pc EXCEPT !["task"] = "done"]
            /\ UNCHANGED <<loading, ljob, load_attempts>>
       ELSE /\ BeginLoad("task")
            /\ pc' = [pc EXCEPT !["task"] = "await_load"]
    /\ UNCHANGED <<summarizer, classifier, models_loaded, ijob, iscore, result,
                   load_failures, ncalls>>
    /\ UNCHANGED <<nonai, analysis, utilvars>>

\* ai_summary.py:100-105  blank text: empty summary, confidence 0.0
SummarizeBlank(c, text, max_length, limit) ==
    /\ pc[c] = "idle"
    /\ ncalls < limit
    /\ BlankOf[text]
    /\ ncalls' = ncalls + 1
    /\ result' = [result EXCEPT ![c] = Resp("empty", text, max_length, << >>, 0)]
    /\ UNCHANGED <<task_at, summarizer, classifier, models_loaded, loading, pc, ljob,
                   ijob, iscore, load_attempts, load_failures>>
    /\ UNCHANGED <<nonai, analysis, utilvars>>

\* variant of ShortBranch: the text as it was passed in
ShortBranch_raw_text(rec) ==
    [rec EXCEPT !.out = "short", !.summary = rec.text, !.confidence = 10]

\* ai_summary.py:112-116  summary=cleaned_text, confidence 1.0 (tenths: 10)
ShortBranch(rec) ==
    [rec EXCEPT !.out = "short", !.summary = CleanedOf[rec.text], !.confidence = 10]

\* ai_summary.py:109-116  cleaned length < 50: the cleaned text, confidence 1.0
SummarizeShort(c, text, max_length, limit) ==
    /\ pc[c] = "idle"
    /\ ncalls < limit
    /\ ~BlankOf[text]
    /\ Len(CleanedOf[text]) < ShortLimit
    /\ ncalls' = ncalls + 1
    /\ result' = [result EXCEPT ![c] =
                     ShortBranch(Resp("pending", text, max_length, << >>, 0))]
    /\ UNCHANGED <<task_at, summarizer, classifier, models_loaded, loading, pc, ljob,
                   ijob, iscore, load_attempts, load_failures>>
    /\ UNCHANGED <<nonai, analysis, utilvars>>

\* ai_summary.py:118-133  cleaned length >= 50: if not self._models_loaded,
\* await self._load_models_async() (runs inline: returns at once at line 37,
\* or starts a load and suspends the caller), then line 122
SummarizeLong(c, text, max_length, limit, dispatched) ==
    /\ pc[c] = "idle"
    /\ ncalls < limit
    /\ ~BlankOf[text]
    /\ Len(CleanedOf[text]) >= ShortLimit
    /\ ncalls' = ncalls + 1
    /\ IF ~models_loaded /\ ~LoadGuard
       THEN /\ BeginLoad(c)
            /\ pc' = [pc EXCEPT ![c] = "await_load"]
            /\ result' = [result EXCEPT ![c] =
                             Resp("pending", text, max_length, << >>, 0)]
            /\ UNCHANGED ijob
       ELSE /\ Line122(c, Resp("pending", text, max_length, << >>, 0), dispatched)
            /\ UNCHANGED <<loading, ljob, load_attempts>>
    /\ UNCHANGED <<task_at, summarizer, classifier, models_loaded, iscore, load_failures>>
    /\ UNCHANGED <<nonai, analysis, utilvars>>

\* load jobs a worker of ml_executor is running
RunningLoads == {p \in Procs : ljob[p] \in {"run_pipeline", "run_classifier"}}

\* a free ml_executor worker takes a queued _load_models_sync job
LoadJobStart(p) ==
    /\ ljob[p] = "queued"
    /\ Cardinality(RunningLoads) < MlWorkers
    /\ ljob' = [ljob EXCEPT ![p] = "run_pipeline"]
    /\ UNCHANGED <<task_at, summarizer, classifier, models_loaded, loading, pc, ijob, iscore,
                   result, load_attempts, load_failures, ncalls>>
    /\ UNCHANGED <<nonai, analysis, utilvars>>

\* ai_summary.py:61-67  self.summarizer = pipeline(...) succeeds
LoadPipelineOk(p) ==
    /\ ljob[p] = "run_pipeline"
    /\ summarizer' = TRUE
    /\ ljob' = [ljob EXCEPT ![p] = "run_classifier"]
    /\ UNCHANGED <<task_at, classifier, models_loaded, loading, pc, ijob, iscore,
                   result, load_attempts, load_failures, ncalls>>
    /\ UNCHANGED <<nonai, analysis, utilvars>>

\* ai_summary.py:61-67, 76-81  the import or pipeline(...) raises
LoadPipelineFail(p) ==
    /\ ljob[p] = "run_pipeline"
    /\ ljob' = [ljob EXCEPT ![p] = "fail"]
    /\ UNCHANGED <<task_at, summarizer, classifier, models_loaded, loading, pc, ijob, iscore,
                   result, load_attempts, load_failures, ncalls>>
    /\ UNCHANGED <<nonai, analysis, utilvars>>

\* ai_summary.py:70-74  self.classifier = SentenceTransformer(...) succeeds
LoadClassifierOk(p) ==
    /\ ljob[p] = "run_classifier"
    /\ classifier' = TRUE
    /\ ljob' = [ljob EXCEPT ![p] = "ok"]
    /\ UNCHANGED <<task_at, summarizer, models_loaded, loading, pc, ijob, iscore,
                   result, load_attempts, load_failures, ncalls>>
    /\ UNCHANGED <<nonai, analysis, utilvars>>

\* ai_summary.py:70-74, 76-81  the import or SentenceTransformer(...) raises
LoadClassifierFail(p) ==
    /\ ljob[p] = "run_classifier"
    /\ ljob' = [ljob EXCEPT ![p] = "fail"]
    /\ UNCHANGED <<task_at, summarizer, classifier, models_loaded, loading, pc, ijob, iscore,
                   result, load_attempts, load_failures, ncalls>>
    /\ UNCHANGED <<nonai, analysis, utilvars>>

\* variant of JobDone: a job that raised never wakes its coroutine
JobDone_ok_only(job) == job = "ok"

\* ai_summary.py:44-46, utils.py:24  await loop.run_in_executor(...) ends
\* when the job has returned or raised
JobDone(job) == job \in {"ok", "fail"}

\* ai_summary.py:48-55  the background task resumes after its load job
TaskResume ==
    /\ pc["task"] = "await_load"
    /\ JobDone(ljob["task"])
    /\ FinishLoad("task")
    /\ pc' = [pc EXCEPT !["task"] = "done"]
    /\ UNCHANGED <<task_at, summarizer, classifier, ijob, iscore, result,
                   load_attempts, ncalls>>
    /\ UNCHANGED <<nonai, analysis, utilvars>>

\* ai_summary.py:48-55, 122-133  a summarize_text caller resumes after the
\* load it started and goes on at line 122
CallerLoadResume(c, dispatched) ==
    /\ pc[c] = "await_load"
    /\ JobDone(ljob[c])
    /\ FinishLoad(c)
    /\ Line122(c, result[c], dispatched)
    /\ UNCHANGED <<task_at, summarizer, classifier, iscore, load_attempts, ncalls>>
    /\ UNCHANGED <<nonai, analysis, utilvars>>

\* _summarize_sync jobs a worker of utils.thread_pool is running
RunningInferences == {c \in Callers : ijob[c] = "running"}

\* utils.py:19-25  a free thread_pool worker takes a queued _summarize_sync job
InferStart(c) ==
    /\ ijob[c] = "queued"
    /\ Cardinality(RunningInferences) < PoolWorkers
    /\ ijob' = [ijob EXCEPT ![c] = "running"]
    /\ UNCHANGED <<task_at, summarizer, classifier, models_loaded, loading, pc, ljob,
                   iscore, result, load_attempts, load_failures, ncalls>>
    /\ UNCHANGED <<nonai, analysis, utilvars>>

\* ai_summary.py:84-94  _summarize_sync: RuntimeError without a summarizer,
\* otherwise the model returns (with or without a score) or raises
InferFinish(c, ok, score) ==
    /\ ijob[c] = "running"
    /\ ijob' = [ijob EXCEPT ![c] = IF summarizer /\ ok THEN "ok" ELSE "fail"]
    /\ iscore' = [iscore EXCEPT ![c] = IF summarizer /\ ok THEN score ELSE -1]
    /\ UNCHANGED <<task_at, summarizer, classifier, models_loaded, loading, pc, ljob,
                   result, load_attempts, load_failures, ncalls>>
    /\ UNCHANGED <<nonai, analysis, utilvars>>

\* variant of ModelBranch: the default confidence is used always
ModelBranch_ignores_score(rec, score) ==
    [rec EXCEPT !.out = "model", !.summary = ModelSummary, !.score = score,
                !.confidence = 8]

\* ai_summary.py:135-142  result[0]['summary_text'] and
\* result[0].get('score', 0.8) (tenths: 8)
ModelBranch(rec, score) ==
    [rec EXCEPT !.out = "model",
                !.summary = ModelSummary,
                !.score = score,
                !.confidence = IF score = -1 THEN 8 ELSE score]

\* ai_summary.py:133-152  the caller resumes: the model's summary, or the
\* except branch
InferResume(c) ==
    /\ pc[c] = "await_infer"
    /\ JobDone(ijob[c])
    /\ result' = [result EXCEPT ![c] = IF ijob[c] = "ok"
                                       THEN ModelBranch(result[c], iscore[c])
                                       ELSE ExceptBranch(result[c])]
    /\ ijob' = [ijob EXCEPT ![c] = "none"]
    /\ iscore' = [iscore EXCEPT ![c] = -1]
    /\ pc' = [pc EXCEPT ![c] = "idle"]
    /\ UNCHANGED <<task_at, summarizer, classifier, models_loaded, loading, ljob,
                   load_attempts, load_failures, ncalls>>
    /\ UNCHANGED <<nonai, analysis, utilvars>>

\* the steps of the service when summarize_text is called with texts of the
\* set texts and max_length of the set lengths, at most limit times
AINext(texts, lengths, limit) ==
    \/ TaskStart
    \/ TaskResume
    \/ \E c \in Callers, text \in texts, n \in lengths :
          SummarizeBlank(c, text, n, limit)
    \/ \E c \in Callers, text \in texts, n \in lengths :
          SummarizeShort(c, text, n, limit)
    \/ \E c \in Callers, text \in texts, n \in lengths, d \in BOOLEAN :
          SummarizeLong(c, text, n, limit, d)
    \/ \E p \in Procs : LoadJobStart(p)
    \/ \E p \in Procs : LoadPipelineOk(p)
    \/ \E p \in Procs : LoadPipelineFail(p)
    \/ \E p \in Procs : LoadClassifierOk(p)
    \/ \E p \in Procs : LoadClassifierFail(p)
    \/ \E c \in Callers, d \in BOOLEAN : CallerLoadResume(c, d)
    \/ \E c \in Callers : InferStart(c)
    \/ \E c \in Callers, ok \in BOOLEAN, score \in ModelScores : InferFinish(c, ok, score)
    \/ \E c \in Callers : InferResume(c)

NextAI == AINext(CtlTexts, {DefaultMaxLength}, MaxSummarize)

SpecAI == Init /\ [][NextAI]_vars

MaxLengths == {SmallMaxLength, DefaultMaxLength}

NextSum == AINext(Texts, MaxLengths, MaxSumCalls)

\* the service with summarize_text called on varied texts
SpecSum == Init /\ [][NextSum]_vars

\* load attempts submitted and not yet collected by their coroutine
LoadsInFlight == {p \in Procs : ljob[p] # "none"}

\* C6: at most one model-load attempt is in flight at any time; no two
\* executions of _load_models_sync overlap.
C6_OneLoadInFlight ==
    /\ Cardinality(LoadsInFlight) <= 1
    /\ Cardinality(RunningLoads) <= 1

\* a caller's load is running while the background task's trigger has
\* come and gone without starting a second one
C6_Witness ==
    /\ \E c \in Callers : ljob[c] \in {"run_pipeline", "run_classifier"}
    /\ task_at = "Loading"
    /\ \E c \in Callers : result[c].out = "fallback" /\ result[c].at = "Loading"

\* C7: load triggering is idempotent: exactly one load attempt is ever
\* started, whatever triggers arrive while Loading, Ready or Failed.
C7_ExactlyOneAttempt == load_attempts <= 1

\* C8: once a load attempt has failed, no new load attempt is started and
\* the service stays Failed.
C8_FailedIsPermanent ==
    [][load_failures > 0 =>
          (load_attempts' = load_attempts /\ ModelState' = "Failed")]_vars

\* C9: the summarizer handle is set only if the model state is Ready.
C9_HandleOnlyWhenReady == summarizer => ModelState = "Ready"

\* C10: once _models_loaded is true the state stays Ready and no further
\* load attempt is started.
C10_ReadyIsPermanent ==
    [][models_loaded =>
          (ModelState' = "Ready" /\ ~loading' /\ load_attempts' = load_attempts)]_vars

\* the models are loaded, and summarize_text calls and the background
\* task's trigger have followed
C10_Witness ==
    /\ models_loaded
    /\ task_at = "Ready"
    /\ \E c \in Callers : result[c].out = "model" /\ result[c].at = "Ready"

\* C11: summarize_text never waits for a model load: called with a text of
\* cleaned length >= 50 while the model is not Ready, it returns the
\* truncation fallback without being suspended until a load attempt completes.
C11_NeverWaitsForLoad ==
    \A c \in Callers :
        /\ pc[c] # "await_load"
        /\ (result[c].out \notin {"none", "pending"}
               /\ result[c].at # "Ready"
               /\ Len(CleanedOf[result[c].text]) >= ShortLimit)
           => result[c].out = "fallback"

\* the text of 300 times A
A300 == Rep("A", 300)

\* a finished call made in state Failed on the text of 300 times A with the
\* default max_length, every load attempt so far having raised before the
\* summarizer was set
C12_Case(c) ==
    /\ result[c].out \notin {"none", "pending"}
    /\ result[c].at = "Failed"
    /\ result[c].text = A300
    /\ result[c].max_length = DefaultMaxLength
    /\ ~summarizer
    /\ load_failures = load_attempts

\* C12 as stated: with the model forced to Failed, summarize_text on 300
\* times A with the default max_length returns the first 150 characters
\* followed by the ellipsis, with confidence_score = 0.0.
C12_FailedGivesZeroConfidence ==
    \A c \in Callers :
        C12_Case(c) => /\ result[c].summary = Rep("A", 150) \o <<".", ".", ".">>
                       /\ result[c].confidence = 0

\* C12 amended: with the model forced to Failed, summarize_text on 300
\* times A with the default max_length returns the first 150 characters
\* followed by the ellipsis, with confidence_score = 0.5.
C12_FailedGivesHalfConfidence ==
    \A c \in Callers :
        C12_Case(c) => /\ result[c].summary = Rep("A", 150) \o <<".", ".", ".">>
                       /\ result[c].confidence = 5

\* the background load raised, then the call was made and its own load
\* attempt raised as well
C12_Witness ==
    \E c \in Callers :
        /\ C12_Case(c)
        /\ load_failures = 2
        /\ Len(result[c].summary) = 153

\* C13: no failure propagates out of summarize_text: whatever raises in
\* model loading, dispatch or inference, the call returns a result, and a
\* failure of dispatch or inference gives confidence_score = 0.0.
C13_NothingPropagates ==
    \A c \in Callers :
        /\ result[c].out \in {"none", "pending", "empty", "short", "fallback",
                              "model", "error"}
        /\ result[c].out = "error" => result[c].confidence = 0
        /\ (pc[c] = "idle" /\ result[c].out # "none") => result[c].out # "pending"

\* a call whose dispatch or inference raised has returned, after a load
\* attempt had raised too
C13_Witness ==
    \E c \in Callers :
        /\ result[c].out = "error"
        /\ result[c].confidence = 0
        /\ load_failures > 0

\* C14: when the model is unavailable at the call (Unloaded, Loading or
\* Failed, summarizer handle null) and the cleaned text has length >= 50,
\* summarize_text returns confidence_score = 0.5 and the cleaned text, cut
\* to max_length characters plus ... exactly when it is longer.
C14_UnavailableGivesFallback ==
    \A c \in Callers :
        (/\ result[c].out \notin {"none", "pending"}
         /\ result[c].at \in {"Unloaded", "Loading", "Failed"}
         /\ ~result[c].handle
         /\ Len(CleanedOf[result[c].text]) >= ShortLimit)
        => LET cleaned == CleanedOf[result[c].text]
               n == result[c].max_length
           IN  /\ result[c].confidence = 5
               /\ result[c].summary =
                     IF Len(cleaned) <= n THEN cleaned
                     ELSE SubSeq(cleaned, 1, n) \o <<".", ".", ".">>

\* every character of s is whitespace
AllSpace(s) == \A i \in 1..Len(s) : IsSpace(s[i])

\* C15: for empty or whitespace-only input summarize_text returns the empty
\* summary with confidence_score 0.0 in every model state, without suspending.
C15_BlankGivesEmpty ==
    \A c \in Callers :
        (result[c].out # "none" /\ AllSpace(result[c].text))
        => /\ result[c].out = "empty"
           /\ result[c].summary = << >>
           /\ result[c].confidence = 0
           /\ pc[c] = "idle"

\* a whitespace-only text was passed after the model load had failed
C15_Witness ==
    \E c \in Callers :
        /\ result[c].out = "empty"
        /\ result[c].text # << >>
        /\ AllSpace(result[c].text)
        /\ result[c].at = "Failed"

\* C16: for a non-blank input whose cleaned text has fewer than 50
\* characters summarize_text returns exactly the cleaned text with
\* confidence_score = 1.0, in every model state.
C16_ShortGivesCleaned ==
    \A c \in Callers :
        (/\ result[c].out # "none"
         /\ ~AllSpace(result[c].text)
         /\ Len(clean_text(result[c].text)) < 50)
        => /\ result[c].summary = clean_text(result[c].text)
           /\ result[c].confidence = 10
           /\ pc[c] = "idle"

\* a text that cleaning changes was returned cleaned while the models
\* were loaded
C16_Witness ==
    \E c \in Callers :
        /\ result[c].out = "short"
        /\ result[c].summary # result[c].text
        /\ result[c].summary # << >>
        /\ result[c].at = "Ready"

C18_AtMostTwoJobs ==
    Cardinality(RunningInferences) + Cardinality(RunningLoads) <= 2

\* the event loop runs every coroutine that is ready, every pool gives a
\* free worker to a queued job, and every job that runs returns or raises
AIFairness ==
    /\ WF_vars(TaskStart)
    /\ WF_vars(TaskResume)
    /\ \A p \in Procs :
          /\ WF_vars(LoadJobStart(p))
          /\ WF_vars(LoadPipelineOk(p) \/ LoadPipelineFail(p))
          /\ WF_vars(LoadClassifierOk(p) \/ LoadClassifierFail(p))
    /\ \A c \in Callers :
          /\ WF_vars(\E d \in BOOLEAN : CallerLoadResume(c, d))
          /\ WF_vars(InferStart(c))
          /\ WF_vars(\E ok \in BOOLEAN, score \in ModelScores : InferFinish(c, ok, score))
          /\ WF_vars(InferResume(c))

\* the service under fair scheduling
SpecAILive == SpecAI /\ AIFairness

\* C28: every summarize_text call eventually returns: under fair scheduling
\* of the event loop and the pools, and with every submitted load or
\* inference job finishing, no caller waits forever.
C28_EveryCallReturns ==
    \A c \in Callers : (pc[c] # "idle") ~> (pc[c] = "idle")

\* a call made after a failed load has waited for its own load attempt and
\* for the inference, and has returned the model's summary
C28_Witness ==
    \E c \in Callers :
        /\ pc[c] = "idle"
        /\ result[c].out = "model"
        /\ result[c].at = "Failed"

\* C27: the exception fallback of summarize_text returns the summary the
\* model-unavailable fallback gives for the same text and max_length, the
\* truncation of the cleaned text; only the confidence differs (0.0).
C27_ErrorSummaryIsCleaned ==
    \A c \in Callers :
        result[c].out = "error"
        => LET cleaned == clean_text(result[c].text)
               n == result[c].max_length
           IN  /\ result[c].confidence = 0
               /\ result[c].summary =
                     IF Len(cleaned) > n
                     THEN SubSeq(cleaned, 1, n) \o <<".", ".", ".">>
                     ELSE cleaned

(* ------------------------------------------------------------------ *)
(* AISummaryService.analyze_calendar_efficiency (ai_summary.py:203-229)  *)
(* ------------------------------------------------------------------ *)
\* an event is a dict with a start and an end; hours is the time between them
Event(h) == [hours |-> h]

\* event lists of at most MaxEvents events lasting one, two or three hours
EventLists ==
    {Rep(Event(1), n[1]) \o Rep(Event(2), n[2]) \o Rep(Event(3), n[3]) :
        n \in {m \in (0..MaxEvents) \X (0..MaxEvents) \X (0..MaxEvents) :
                  m[1] + m[2] + m[3] <= MaxEvents}}

LoadWarning == "Consider reducing meeting time - you have over 6 hours of meetings"

DensityWarning == "High meeting density - consider batching similar meetings"

RECURSIVE MeetingHours_uses_duration(_)
\* variant of MeetingHours: the time between start and end is added up
MeetingHours_uses_duration(events) ==
    IF events = << >> THEN 0
    ELSE Head(events).hours + MeetingHours_uses_duration(Tail(events))

RECURSIVE MeetingHours(_)
\* ai_summary.py:209-215  meeting_hours = 0; for event in events: meeting_hours += 1
MeetingHours(events) ==
    IF events = << >> THEN 0 ELSE 1 + MeetingHours(Tail(events))

\* ai_summary.py:203-229  the dict returned for a list of events
analyze_calendar_efficiency(events) ==
    IF events = << >>
    THEN [total_meetings |-> 0, suggestions |-> << >>]
    ELSE LET total_meetings == Len(events)
             meeting_hours == MeetingHours(events)
         IN  [total_meetings |-> total_meetings,
              estimated_meeting_hours |-> meeting_hours,
              suggestions |->
                  (IF meeting_hours > 6 THEN <<LoadWarning>> ELSE << >>) \o
                  (IF total_meetings > 8 THEN <<DensityWarning>> ELSE << >>)]

\* routes/calendar.py:59  the service is asked to analyse a list of events
AnalyzeCalendar(events) ==
    /\ analysis' = [called |-> TRUE, events |-> events,
                    ret |-> analyze_calendar_efficiency(events)]
    /\ UNCHANGED <<nonai, aivars, utilvars>>

NextCal == \E events \in EventLists : AnalyzeCalendar(events)

SpecCal == Init /\ [][NextCal]_vars

\* C19: analyze_calendar_efficiency on an empty event list returns all three
\* fields: total meetings 0, estimated meeting hours 0 and no suggestions.
C19_EmptyHasAllFields ==
    (analysis.called /\ analysis.events = << >>)
    => /\ DOMAIN analysis.ret =
             {"total_meetings", "estimated_meeting_hours", "suggestions"}
       /\ analysis.ret.total_meetings = 0
       /\ analysis.ret.estimated_meeting_hours = 0
       /\ analysis.ret.suggestions = << >>

\* C20: for a non-empty list of n events the result has total meetings n and
\* estimated hours n; its suggestions are the load warning iff n > 6 and the
\* density warning iff n > 8, the load warning first.
C20_CountsAndWarnings ==
    (analysis.called /\ analysis.events # << >>)
    => LET n == Len(analysis.events)
       IN  /\ analysis.ret.total_meetings = n
           /\ analysis.ret.estimated_meeting_hours = n
           /\ analysis.ret.suggestions =
                 (IF n > 6 THEN <<LoadWarning>> ELSE << >>) \o
                 (IF n > 8 THEN <<DensityWarning>> ELSE << >>)

\* nine events, some of them longer than an hour, gave both warnings
C20_Witness ==
    /\ analysis.called
    /\ Len(analysis.events) = 9
    /\ \E i \in 1..9 : analysis.events[i].hours > 1
    /\ analysis.ret.suggestions = <<LoadWarning, DensityWarning>>

(* ------------------------------------------------------------------ *)
(* Pure functions of utils.py and AISummaryService                      *)
(* ------------------------------------------------------------------ *)
Min(a, b) == IF a < b THEN a ELSE b

Max(a, b) == IF a > b THEN a ELSE b

\* utils.py:130-154
calculate_productivity_score(meetings_today, focus_blocks, emails_processed, tasks_completed) ==
    LET s0 == 100
        s1 == IF meetings_today > 6 THEN s0 - (meetings_today - 6) * 10
              ELSE IF meetings_today > 4 THEN s0 - (meetings_today - 4) * 5
              ELSE s0
        s2 == s1 + Min(focus_blocks * 15, 30)
        s3 == s2 + Min(emails_processed * 2, 20)
        s4 == s3 + Min(tasks_completed * 5, 25)
    IN  Max(0, Min(100, s4))

\* a behaviour follows one call of one pure function
Call_calculate_productivity_score(m, f, e, t) ==
    /\ ucall.fn = "none"
    /\ ucall' = [fn |-> "calculate_productivity_score", args |-> <<m, f, e, t>>,
                 ret |-> calculate_productivity_score(m, f, e, t)]
    /\ UNCHANGED <<nonai, aivars, analysis, served, retry>>

\* utils.py:160  the characters of the class [<>:"/\\|?*]
InvalidChars == {"<", ">", ":", "\"", "/", "\\", "|", "?", "*"}

\* utils.py:160  re.sub(r'[<>:"/\\|?*]', '_', filename)
ReplaceInvalid(s) == [i \in 1..Len(s) |-> IF s[i] \in InvalidChars THEN "_" ELSE s[i]]

\* utils.py:163  filename.strip(' .')
StripSpacesDots(s) ==
    LET keep == {i \in 1..Len(s) : s[i] \notin {" ", "."}}
    IN  IF keep = {} THEN << >>
        ELSE SubSeq(s, Least(keep), CHOOSE i \in keep : \A j \in keep : j <= i)

\* utils.py:167  filename.rsplit('.', 1) if '.' in filename else (filename, '')
SplitExt(s) ==
    LET dots == {i \in 1..Len(s) : s[i] = "."}
    IN  IF dots = {} THEN [name |-> s, ext |-> << >>]
        ELSE LET d == CHOOSE i \in dots : \A j \in dots : j <= i
             IN  [name |-> SubSeq(s, 1, d - 1), ext |-> SubSeq(s, d + 1, Len(s))]

\* utils.py:157-170
sanitize_filename(filename) ==
    LET stripped == StripSpacesDots(ReplaceInvalid(filename))
    IN  IF Len(stripped) > 255
        THEN LET p == SplitExt(stripped)
             IN  Prefix(p.name, 250) \o
                 (IF p.ext # << >> THEN <<".">> \o p.ext ELSE << >>)
        ELSE stripped

\* file names: some leading characters, a name, and a dot with an
\* extension (none when the extension is empty)
Filenames ==
    {lead \o Rep("a", i) \o (IF j = 0 THEN << >> ELSE <<".">> \o Rep("b", j)) :
        lead \in {<< >>, <<" ", ".">>, <<"<", "?", "\"", "\\">>},
        i \in {0, 1, 2, 249, 250, 251, 256, MaxNameLen},
        j \in {0, 1, 3, 4, 5, 6, MaxExtLen}}

Call_sanitize_filename(filename) ==
    /\ ucall.fn = "none"
    /\ ucall' = [fn |-> "sanitize_filename", args |-> <<filename>>,
                 ret |-> sanitize_filename(filename)]
    /\ UNCHANGED <<nonai, aivars, analysis, served, retry>>

\* str.lower() on the letters A-Z
UpperCase == <<"A", "B", "C", "D", "E", "F", "G", "H", "I", "J", "K", "L", "M", "N", "O", "P", "Q", "R", "S", "T", "U", "V", "W", "X", "Y", "Z">>

LowerCase == <<"a", "b", "c", "d", "e", "f", "g", "h", "i", "j", "k", "l", "m", "n", "o", "p", "q", "r", "s", "t", "u", "v", "w", "x", "y", "z">>

ToLower(ch) ==
    IF \E i \in 1..26 : UpperCase[i] = ch
    THEN LowerCase[CHOOSE i \in 1..26 : UpperCase[i] = ch]
    ELSE ch

Lower(s) == [i \in 1..Len(s) |-> ToLower(s[i])]

\* pat in s
Contains(s, pat) == FindSub(s, pat, 1) # 0

\* any(p in s for p in pats)
AnyIn(s, pats) == \E pat \in pats : Contains(s, pat)

\* ai_summary.py:181  ['.pdf', '.doc', '.docx']
DocumentExts == {<<".", "p", "d", "f">>,
                <<".", "d", "o", "c">>,
                <<".", "d", "o", "c", "x">>}

\* ai_summary.py:191  ['.jpg', '.png', '.gif', '.jpeg']
ImageExts == {<<".", "j", "p", "g">>,
             <<".", "p", "n", "g">>,
             <<".", "g", "i", "f">>,
             <<".", "j", "p", "e", "g">>}

\* ai_summary.py:194  ['.xlsx', '.xls', '.csv']
SpreadsheetExts == {<<".", "x", "l", "s", "x">>,
                   <<".", "x", "l", "s">>,
                   <<".", "c", "s", "v">>}

\* ai_summary.py:197  ['.ppt', '.pptx']
PresentationExts == {<<".", "p", "p", "t">>,
                    <<".", "p", "p", "t", "x">>}

\* ai_summary.py:182  ['resume', 'cv']
ResumeWords == {<<"r", "e", "s", "u", "m", "e">>,
               <<"c", "v">>}

\* ai_summary.py:184  ['report', 'analysis']
ReportWords == {<<"r", "e", "p", "o", "r", "t">>,
               <<"a", "n", "a", "l", "y", "s", "i", "s">>}

\* ai_summary.py:186  ['contract', 'agreement']
LegalWords == {<<"c", "o", "n", "t", "r", "a", "c", "t">>,
              <<"a", "g", "r", "e", "e", "m", "e", "n", "t">>}

\* ai_summary.py:181-189  the keyword chain of the document group
DocumentKind(filename_lower) ==
    IF AnyIn(filename_lower, ResumeWords) THEN "Resume/CV"
    ELSE IF AnyIn(filename_lower, ReportWords) THEN "Report"
    ELSE IF AnyIn(filename_lower, LegalWords) THEN "Legal Document"
    ELSE "Document"

\* variant of categorize_file: the image group is tried first
categorize_file_image_first(filename) ==
    LET filename_lower == Lower(filename)
    IN  IF AnyIn(filename_lower, ImageExts) THEN "Image"
        ELSE IF AnyIn(filename_lower, DocumentExts) THEN DocumentKind(filename_lower)
        ELSE IF AnyIn(filename_lower, SpreadsheetExts) THEN "Spreadsheet"
        ELSE IF AnyIn(filename_lower, PresentationExts) THEN "Presentation"
        ELSE "Other"

\* ai_summary.py:176-201
categorize_file(filename) ==
    LET filename_lower == Lower(filename)
    IN  IF AnyIn(filename_lower, DocumentExts) THEN DocumentKind(filename_lower)
        ELSE IF AnyIn(filename_lower, ImageExts) THEN "Image"
        ELSE IF AnyIn(filename_lower, SpreadsheetExts) THEN "Spreadsheet"
        ELSE IF AnyIn(filename_lower, PresentationExts) THEN "Presentation"
        ELSE "Other"

\* file names given to categorize_file: the empty name, every extension and
\* keyword, upper case, two extensions, two keywords, no extension
CatFiles ==
    { << >>,
      <<"r", "e", "s", "u", "m", "e", "_", "2", "0", "2", "4", ".", "p", "d", "f">>,
      <<"p", "h", "o", "t", "o", ".", "j", "p", "g">>,
      <<"n", "o", "t", "e", "s", ".", "t", "x", "t">>,
      <<"R", "E", "S", "U", "M", "E", ".", "P", "D", "F">>,
      <<"M", "y", "_", "C", "V", ".", "d", "o", "c", "x">>,
      <<"r", "e", "p", "o", "r", "t", ".", "d", "o", "c", "x">>,
      <<"a", "n", "a", "l", "y", "s", "i", "s", ".", "d", "o", "c">>,
      <<"c", "o", "n", "t", "r", "a", "c", "t", ".", "p", "d", "f">>,
      <<"A", "g", "r", "e", "e", "m", "e", "n", "t", ".", "P", "D", "F">>,
      <<"p", "l", "a", "i", "n", ".", "p", "d", "f">>,
      <<"a", ".", "p", "n", "g">>,
      <<"a", ".", "g", "i", "f">>,
      <<"a", ".", "j", "p", "e", "g">>,
      <<"d", "a", "t", "a", ".", "x", "l", "s", "x">>,
      <<"d", "a", "t", "a", ".", "x", "l", "s">>,
      <<"d", "a", "t", "a", ".", "c", "s", "v">>,
      <<"d", "e", "c", "k", ".", "p", "p", "t">>,
      <<"D", "e", "c", "k", ".", "P", "P", "T", "X">>,
      <<"r", "e", "p", "o", "r", "t", ".", "p", "d", "f", ".", "j", "p", "g">>,
      <<"r", "e", "s", "u", "m", "e", "_", "r", "e", "p", "o", "r", "t", ".", "p", "d", "f">>,
      <<"r", "e", "p", "o", "r", "t", "_", "c", "o", "n", "t", "r", "a", "c", "t", ".", "d", "o", "c">>,
      <<"c", "o", "n", "t", "r", "a", "c", "t", "_", "c", "v", ".", "p", "d", "f">>,
      <<"c", "v", ".", "p", "n", "g">>,
      <<"p", "h", "o", "t", "o", ".", "j", "p", "g", ".", "x", "l", "s", "x">>,
      <<"s", "h", "e", "e", "t", ".", "c", "s", "v", ".", "p", "p", "t">>,
      <<"m", "y", ".", "p", "d", "f", ".", "b", "a", "c", "k", "u", "p">>,
      <<"p", "d", "f">>,
      <<"r", "e", "p", "o", "r", "t">>,
      <<".", "d", "o", "c", "s">>,
      <<"x", ".", "J", "P", "G", ".", "t", "x", "t">> }

Call_categorize_file(filename) ==
    /\ ucall.fn = "none"
    /\ ucall' = [fn |-> "categorize_file", args |-> <<filename>>,
                 ret |-> categorize_file(filename)]
    /\ UNCHANGED <<nonai, aivars, analysis, served, retry>>

\* the characters of \w used here: letters, digits and the underscore
IsWord(ch) ==
    \/ \E i \in 1..26 : LowerCase[i] = ToLower(ch)
    \/ ch \in {"0", "1", "2", "3", "4", "5", "6", "7", "8", "9", "_"}

\* ai_summary.py:160-164  the keyword alternatives of the five patterns
TaskKeywords ==
    << {<<"p", "l", "e", "a", "s", "e">>,
         <<"c", "a", "n", " ", "y", "o", "u">>,
         <<"c", "o", "u", "l", "d", " ", "y", "o", "u">>,
         <<"n", "e", "e", "d", " ", "t", "o">>,
         <<"h", "a", "v", "e", " ", "t", "o">>,
         <<"m", "u", "s", "t">>,
         <<"s", "h", "o", "u", "l", "d">>},
       {<<"a", "c", "t", "i", "o", "n", " ", "i", "t", "e", "m">>,
         <<"t", "o", "d", "o">>,
         <<"t", "a", "s", "k">>,
         <<"f", "o", "l", "l", "o", "w", " ", "u", "p">>},
       {<<"b", "y">>,
         <<"b", "e", "f", "o", "r", "e">>,
         <<"u", "n", "t", "i", "l">>},
       {<<"s", "c", "h", "e", "d", "u", "l", "e">>,
         <<"b", "o", "o", "k">>,
         <<"a", "r", "r", "a", "n", "g", "e">>,
         <<"s", "e", "t", " ", "u", "p">>,
         <<"o", "r", "g", "a", "n", "i", "z", "e">>},
       {<<"r", "e", "v", "i", "e", "w">>,
         <<"c", "h", "e", "c", "k">>,
         <<"v", "e", "r", "i", "f", "y">>,
         <<"c", "o", "n", "f", "i", "r", "m">>,
         <<"u", "p", "d", "a", "t", "e">>} >>

\* end of the run [^.!?]* that starts at index i: index of the next
\* terminator, or Len(s) + 1
SegEnd(s, i) ==
    LET stops == {j \in i..Len(s) : s[j] \in {".", "!", "?"}}
    IN  IF stops = {} THEN Len(s) + 1 ELSE Least(stops)

\* index behind the keyword of pattern pat that starts at i (matched without
\* regard to case), or 0
AfterKeyword(pat, low, i) ==
    LET kws == {kw \in TaskKeywords[pat] : StartsAt(low, kw, i)}
    IN  IF kws = {} THEN 0 ELSE i + Len(CHOOSE kw \in kws : TRUE)

NoMatch == [ok |-> FALSE, from |-> 0, stop |-> 0]

\* ai_summary.py:160, 163, 164  keyword \s+ ([^.!?]+): what strip() leaves of
\* the group is what it leaves of the text between the keyword and the next
\* terminator, which must start with whitespace and hold one more character
MatchSpace(pat, s, low, i) ==
    LET j == AfterKeyword(pat, low, i)
    IN  IF j # 0 /\ j <= Len(s) /\ IsSpace(s[j]) /\ SegEnd(s, j) - j >= 2
        THEN [ok |-> TRUE, from |-> j, stop |-> SegEnd(s, j)]
        ELSE NoMatch

\* ai_summary.py:161  keyword : \s* ([^.!?]+)
MatchColon(pat, s, low, i) ==
    LET j == AfterKeyword(pat, low, i)
    IN  IF j # 0 /\ j <= Len(s) /\ s[j] = ":" /\ SegEnd(s, j + 1) - (j + 1) >= 1
        THEN [ok |-> TRUE, from |-> j + 1, stop |-> SegEnd(s, j + 1)]
        ELSE NoMatch

\* ai_summary.py:162  keyword \s+ \w+day [^.!?]*: no group, findall gives the
\* whole match
MatchDay(pat, s, low, i) ==
    LET j == AfterKeyword(pat, low, i)
        inked == {x \in j..Len(s) : ~IsSpace(s[x])}
        k == IF inked = {} THEN Len(s) + 1 ELSE Least(inked)
    IN  IF /\ j # 0
           /\ k > j
           /\ \E d \in (k + 1)..Len(s) :
                 /\ \A x \in k..(d - 1) : IsWord(s[x])
                 /\ StartsAt(low, <<"d", "a", "y">>, d)
        THEN [ok |-> TRUE, from |-> i, stop |-> SegEnd(s, k)]
        ELSE NoMatch

MatchAt(pat, s, low, i) ==
    IF pat = 2 THEN MatchColon(pat, s, low, i)
    ELSE IF pat = 3 THEN MatchDay(pat, s, low, i)
    ELSE MatchSpace(pat, s, low, i)

\* ai_summary.py:168-170  re.findall(pattern, text, re.IGNORECASE), each
\* match stripped: the leftmost match, then the scan goes on behind it
RECURSIVE FindAll(_, _, _, _)
FindAll(pat, s, low, pos) ==
    LET hits == {i \in pos..Len(s) : MatchAt(pat, s, low, i).ok}
    IN  IF hits = {} THEN << >>
        ELSE LET m == MatchAt(pat, s, low, Least(hits))
             IN  <<Strip(SubSeq(s, m.from, m.stop - 1))>> \o FindAll(pat, s, low, m.stop)

\* variant of AddTask: a task already in the list is added again
AddTask_no_dedupe(tasks, task) ==
    IF Len(task) > 10 THEN Append(tasks, task) ELSE tasks

\* ai_summary.py:171-172  if len(task) > 10 and task not in tasks: append
AddTask(tasks, task) ==
    IF Len(task) > 10 /\ \A i \in 1..Len(tasks) : tasks[i] # task
    THEN Append(tasks, task)
    ELSE tasks

RECURSIVE AddTasks(_, _)
AddTasks(tasks, found) ==
    IF found = << >> THEN tasks
    ELSE AddTasks(AddTask(tasks, Head(found)), Tail(found))

RECURSIVE TasksFrom(_, _, _)
\* ai_summary.py:167-172  the loop over the patterns from pat on
TasksFrom(pat, text, tasks) ==
    IF pat > 5 THEN tasks
    ELSE TasksFrom(pat + 1, text, AddTasks(tasks, FindAll(pat, text, Lower(text), 1)))

\* ai_summary.py:154-174
extract_tasks(text) == Prefix(TasksFrom(1, text, << >>), 5)

\* texts given to extract_tasks: empty, no task, a repeated task, a task
\* repeated in another case, tasks of 10 characters or less, the colon and
\* the day patterns, seven tasks, a task inside a task
TaskTexts ==
    { <<>>,
      <<"H", "e", "l", "l", "o", " ", "t", "e", "a", "m", ",", " ", "n", "o", "t", "h", "i", "n", "g", " ", "t", "o", " ", "d", "o", " ", "h", "e", "r", "e", ".">>,
      <<"P", "l", "e", "a", "s", "e", " ", "r", "e", "v", "i", "e", "w", " ", "t", "h", "e", " ", "q", "u", "a", "r", "t", "e", "r", "l", "y", " ", "r", "e", "p", "o", "r", "t", ".", " ", "P", "l", "e", "a", "s", "e", " ", "r", "e", "v", "i", "e", "w", " ", "t", "h", "e", " ", "q", "u", "a", "r", "t", "e", "r", "l", "y", " ", "r", "e", "p", "o", "r", "t", "!">>,
      <<"p", "l", "e", "a", "s", "e", " ", "s", "e", "n", "d", " ", "t", "h", "e", " ", "f", "i", "n", "a", "l", " ", "d", "r", "a", "f", "t", ".", " ", "P", "l", "e", "a", "s", "e", " ", "S", "E", "N", "D", " ", "t", "h", "e", " ", "f", "i", "n", "a", "l", " ", "d", "r", "a", "f", "t", ".">>,
      <<"Y", "o", "u", " ", "m", "u", "s", "t", " ", "g", "o", ".", " ", "W", "e", " ", "s", "h", "o", "u", "l", "d", " ", " ", " ">>,
      <<"T", "O", "D", "O", ":", " ", "u", "p", "d", "a", "t", "e", " ", "t", "h", "e", " ", "p", "r", "o", "j", "e", "c", "t", " ", "r", "o", "a", "d", "m", "a", "p", "?", " ", "t", "a", "s", "k", ":", " ", " ", " ", "\n", "f", "o", "l", "l", "o", "w", " ", "u", "p", ":", " ", "c", "a", "l", "l", " ", "t", "h", "e", " ", "v", "e", "n", "d", "o", "r", " ", "a", "b", "o", "u", "t", " ", "p", "r", "i", "c", "i", "n", "g">>,
      <<"S", "u", "b", "m", "i", "t", " ", "i", "t", " ", "b", "y", " ", "M", "o", "n", "d", "a", "y", " ", "e", "v", "e", "n", "i", "n", "g", ".", " ", "F", "i", "n", "i", "s", "h", " ", "b", "e", "f", "o", "r", "e", " ", " ", "F", "r", "i", "d", "a", "y", "!", " ", "u", "n", "t", "i", "l", " ", "n", "o", "o", "n">>,
      <<"C", "a", "n", " ", "y", "o", "u", " ", "s", "c", "h", "e", "d", "u", "l", "e", " ", "a", " ", "m", "e", "e", "t", "i", "n", "g", " ", "w", "i", "t", "h", " ", "B", "o", "b", ".", " ", "N", "e", "e", "d", " ", "t", "o", " ", "b", "o", "o", "k", " ", "t", "h", "e", " ", "l", "a", "r", "g", "e", " ", "r", "o", "o", "m", "!", " ", "C", "o", "u", "l", "d", " ", "y", "o", "u", " ", "a", "r", "r", "a", "n", "g", "e", " ", "t", "r", "a", "v", "e", "l", " ", "f", "o", "r", " ", "t", "w", "o", "?", " ", "H", "a", "v", "e", " ", "t", "o", " ", "o", "r", "g", "a", "n", "i", "z", "e", " ", "t", "h", "e", " ", "t", "e", "a", "m", " ", "o", "f", "f", "s", "i", "t", "e", ".", " ", "M", "u", "s", "t", " ", "s", "e", "t", " ", "u", "p", " ", "t", "h", "e", " ", "n", "e", "w", " ", "l", "a", "p", "t", "o", "p", ".", " ", "S", "h", "o", "u", "l", "d", " ", "c", "o", "n", "f", "i", "r", "m", " ", "t", "h", "e", " ", "a", "t", "t", "e", "n", "d", "a", "n", "c", "e", " ", "l", "i", "s", "t", ".", " ", "A", "c", "t", "i", "o", "n", " ", "i", "t", "e", "m", ":", " ", "v", "e", "r", "i", "f", "y", " ", "t", "h", "e", " ", "b", "u", "d", "g", "e", "t", " ", "n", "u", "m", "b", "e", "r", "s">>,
      <<"p", "l", "e", "a", "s", "e", " ", "c", "h", "e", "c", "k", " ", " ", "t", "h", "e", " ", "s", "e", "r", "v", "e", "r", " ", "l", "o", "g", "s", " ", "b", "y", " ", "T", "u", "e", "s", "d", "a", "y", " ", "m", "o", "r", "n", "i", "n", "g", ".">> }

Call_extract_tasks(text) ==
    /\ ucall.fn = "none"
    /\ ucall' = [fn |-> "extract_tasks", args |-> <<text>>,
                 ret |-> extract_tasks(text)]
    /\ UNCHANGED <<nonai, aivars, analysis, served, retry>>

NextUtil ==
    \/ \E m \in 0..MaxMeetings, f \in 0..MaxFocus, e \in 0..MaxEmails, t \in 0..MaxTasks :
          Call_calculate_productivity_score(m, f, e, t)
    \/ \E filename \in Filenames : Call_sanitize_filename(filename)
    \/ \E filename \in CatFiles : Call_categorize_file(filename)
    \/ \E text \in TaskTexts : Call_extract_tasks(text)

SpecUtil == Init /\ [][NextUtil]_vars

\* C21: for every text extract_tasks returns at most 5 entries, pairwise
\* distinct as strings (case matters), and none for the empty text.
C21_AtMostFiveDistinct ==
    ucall.fn = "extract_tasks"
    => /\ Len(ucall.ret) <= 5
       /\ \A i, j \in 1..Len(ucall.ret) : i # j => ucall.ret[i] # ucall.ret[j]
       /\ ucall.args[1] = << >> => ucall.ret = << >>

\* two of the tasks that came back are equal but for their case
C21_Witness ==
    /\ ucall.fn = "extract_tasks"
    /\ Len(ucall.ret) >= 2
    /\ \E i, j \in 1..Len(ucall.ret) :
          i # j /\ Lower(ucall.ret[i]) = Lower(ucall.ret[j])

\* some member of pats occurs in the lower-cased name of the last call
NameHas(pats) ==
    \E pat \in pats :
        \E i \in 1..Len(ucall.args[1]) :
            /\ i + Len(pat) - 1 <= Len(ucall.args[1])
            /\ \A k \in 1..Len(pat) : ToLower(ucall.args[1][i + k - 1]) = pat[k]

\* C22: categorize_file is total and decided by the first matching
\* extension group in the order document > image > spreadsheet >
\* presentation > Other, by case-insensitive substring matching on the name;
\* inside the document group the order is Resume/CV > Report > Legal
\* Document > Document; resume_2024.pdf is Resume/CV, photo.jpg is Image and
\* notes.txt is Other.
C22_FirstGroupWins ==
    ucall.fn = "categorize_file"
    => /\ ucall.ret =
             IF NameHas(DocumentExts)
             THEN IF NameHas(ResumeWords) THEN "Resume/CV"
                  ELSE IF NameHas(ReportWords) THEN "Report"
                  ELSE IF NameHas(LegalWords) THEN "Legal Document"
                  ELSE "Document"
             ELSE IF NameHas(ImageExts) THEN "Image"
             ELSE IF NameHas(SpreadsheetExts) THEN "Spreadsheet"
             ELSE IF NameHas(PresentationExts) THEN "Presentation"
             ELSE "Other"
       /\ ucall.args[1] = <<"r", "e", "s", "u", "m", "e", "_", "2", "0", "2", "4", ".", "p", "d", "f">> => ucall.ret = "Resume/CV"
       /\ ucall.args[1] = <<"p", "h", "o", "t", "o", ".", "j", "p", "g">> => ucall.ret = "Image"
       /\ ucall.args[1] = <<"n", "o", "t", "e", "s", ".", "t", "x", "t">> => ucall.ret = "Other"

\* a name in upper case holding a document extension before an image
\* extension, and a report keyword, was categorized
C22_Witness ==
    /\ ucall.fn = "categorize_file"
    /\ NameHas(DocumentExts)
    /\ NameHas(ImageExts)
    /\ ucall.ret = "Report"

\* C24: an overloaded day scores below 50: 10 meetings today with no focus
\* blocks, no emails processed and no tasks completed give a value < 50.
C24_OverloadedBelow50 ==
    (ucall.fn = "calculate_productivity_score" /\ ucall.args = <<10, 0, 0, 0>>)
    => ucall.ret < 50

\* C25: for every filename sanitize_filename returns a name of at most 255
\* characters holding none of the characters < > : " / \ | ? *.
C25_ShortAndClean ==
    ucall.fn = "sanitize_filename"
    => /\ Len(ucall.ret) <= 255
       /\ \A i \in 1..Len(ucall.ret) : ucall.ret[i] \notin InvalidChars

(* ------------------------------------------------------------------ *)
(* utils.retry_with_backoff: the wrapper coroutine (utils.py:187-204)    *)
(* ------------------------------------------------------------------ *)
\* what one invocation of the wrapped function does: it returns a value or
\* raises an exception
Outcomes ==
    [ok : {TRUE}, val : {"v1", "v2"}] \cup [ok : {FALSE}, val : {"e1", "e2"}]

\* variant of LastAttempt: off by one
LastAttempt_off_by_one(attempt, max_retries) == attempt = max_retries

\* utils.py:196  if attempt == max_retries - 1
LastAttempt(attempt, max_retries) == attempt = max_retries - 1

\* utils.py:192-194  range(max_retries) yields attempt, or is exhausted and
\* the wrapper falls off its end and returns None
LoopAt(r, attempt) ==
    IF attempt < r.max_retries
    THEN [r EXCEPT !.attempt = attempt, !.pc = "calling"]
    ELSE [r EXCEPT !.pc = "returned", !.result = "None"]

\* utils.py:190-194  the wrapper is called and enters its loop
RetryCall(max_retries, backoff_factor) ==
    /\ retry.pc \in {"idle", "returned", "raised"}
    /\ retry' = LoopAt([pc |-> "calling", max_retries |-> max_retries,
                        backoff_factor |-> backoff_factor, attempt |-> 0,
                        outcomes |-> << >>, sleeps |-> << >>, result |-> "none"], 0)
    /\ UNCHANGED <<nonai, aivars, analysis, ucall, served>>

\* utils.py:193-201  await func(...) ends: its value is returned; its
\* exception is re-raised on the last attempt, otherwise the wrapper
\* computes wait_time and sleeps
RetryAttempt(o) ==
    /\ retry.pc = "calling"
    /\ LET r == [retry EXCEPT !.outcomes = Append(@, o)]
       IN  retry' =
             IF o.ok THEN [r EXCEPT !.pc = "returned", !.result = o.val]
             ELSE IF LastAttempt(r.attempt, r.max_retries)
             THEN [r EXCEPT !.pc = "raised", !.result = o.val]
             ELSE [r EXCEPT !.pc = "sleeping",
                            !.sleeps = Append(@, r.backoff_factor * (2 ^ r.attempt))]
    /\ UNCHANGED <<nonai, aivars, analysis, ucall, served>>

\* utils.py:192, 201  asyncio.sleep ends and the loop goes on
RetryWake ==
    /\ retry.pc = "sleeping"
    /\ retry' = LoopAt(retry, retry.attempt + 1)
    /\ UNCHANGED <<nonai, aivars, analysis, ucall, served>>

NextRetry ==
    \/ \E max_retries \in 0..MaxRetries, backoff_factor \in 1..MaxBackoff :
          RetryCall(max_retries, backoff_factor)
    \/ \E o \in Outcomes : RetryAttempt(o)
    \/ RetryWake

SpecRetry == Init /\ [][NextRetry]_vars

\* C29: a function wrapped with max_retries = M >= 1 is invoked at most M
\* times per call of the wrapper; the wrapper returns the value of the first
\* successful attempt and attempts nothing after it, sleeps backoff_factor *
\* 2^attempt between a failed attempt and the next one, and when all M
\* attempts raise it re-raises the exception of the M-th without sleeping.
C29_RetryContract ==
    retry.max_retries >= 1
    => LET n == Len(retry.outcomes)
           failed == {i \in 1..n : ~retry.outcomes[i].ok}
       IN  /\ n <= retry.max_retries
           /\ \A i \in 1..(n - 1) : i \in failed
           /\ \A i \in 1..Len(retry.sleeps) :
                 /\ i \in failed
                 /\ retry.sleeps[i] = retry.backoff_factor * (2 ^ (i - 1))
           /\ retry.pc \in {"calling", "sleeping", "returned", "raised"}
           /\ retry.pc \in {"calling", "sleeping"} => Len(retry.sleeps) = n
           /\ retry.pc = "returned" =>
                 /\ n >= 1 /\ retry.outcomes[n].ok
                 /\ retry.result = retry.outcomes[n].val
                 /\ Len(retry.sleeps) = n - 1
           /\ retry.pc = "raised" =>
                 /\ n = retry.max_retries /\ failed = 1..n
                 /\ retry.result = retry.outcomes[n].val
                 /\ Len(retry.sleeps) = n - 1

\* three attempts raised different exceptions and the last one was
\* re-raised after two sleeps
C29_Witness ==
    /\ retry.pc = "raised"
    /\ retry.max_retries = 3
    /\ retry.backoff_factor = 2
    /\ retry.sleeps = <<2, 4>>
    /\ retry.outcomes[2].val # retry.outcomes[3].val

(* ------------------------------------------------------------------ *)
(* main.rate_limit_middleware in front of the routes (main.py:81-96)     *)
(* ------------------------------------------------------------------ *)
\* main.py:88  the paths of the health checks
ExemptPaths == {"/", "/health"}

Paths == ExemptPaths \cup {"/api/summarize"}

\* request.client.host of the requests
HttpClients == {"k1"}

\* variant of Denied: nothing is turned away
Denied_never(path, allowed) == FALSE

\* main.py:88-92  the request is answered by the middleware itself
Denied(path, allowed) == path \notin ExemptPaths /\ ~allowed

\* main.py:83-96  the middleware receives a request: health checks go
\* straight to call_next; otherwise rate_limiter.is_allowed(client_ip) is
\* called and a rejected request is answered with 429
rate_limit_middleware(path, client_ip) ==
    /\ Len(served) < MaxHttp
    /\ LET checked == path \notin ExemptPaths
           r == IF checked THEN is_allowed(requests, client_ip, clock)
                ELSE [requests |-> requests, result |-> TRUE]
       IN  /\ requests' = r.requests
           /\ served' = Append(served,
                 [path |-> path, client |-> client_ip, checked |-> checked,
                  allowed |-> r.result,
                  status |-> IF Denied(path, r.result) THEN "429" ELSE "pending",
                  handled |-> FALSE])
    /\ UNCHANGED <<clock, calls>>
    /\ UNCHANGED thvars
    /\ UNCHANGED <<aivars, analysis, ucall, retry>>

\* main.py:89, 96  call_next(request): the route handler runs and answers
call_next(i) ==
    /\ i \in DOMAIN served
    /\ served[i].status = "pending"
    /\ served' = [served EXCEPT ![i].status = "route", ![i].handled = TRUE]
    /\ UNCHANGED <<requests, clock, calls>>
    /\ UNCHANGED thvars
    /\ UNCHANGED <<aivars, analysis, ucall, retry>>

\* time passes between requests
HttpTick ==
    /\ clock < MaxTime
    /\ clock' = clock + 1
    /\ UNCHANGED <<requests, calls, served>>
    /\ UNCHANGED thvars
    /\ UNCHANGED <<aivars, analysis, ucall, retry>>

NextHttp ==
    \/ HttpTick
    \/ \E path \in Paths, client_ip \in HttpClients :
          rate_limit_middleware(path, client_ip)
    \/ \E i \in 1..MaxHttp : call_next(i)

SpecHttp == Init /\ [][NextHttp]_vars

\* C23 as stated: every inbound HTTP request is first submitted to
\* rate_limiter.is_allowed with the client's key before any route logic runs,
\* and a request for which it returns false is denied with 429 without the
\* downstream handler being invoked.
C23_EveryRequestChecked ==
    \A i \in DOMAIN served :
        /\ served[i].checked
        /\ ~served[i].allowed => (served[i].status = "429" /\ ~served[i].handled)

\* C23 amended: every inbound HTTP request except those for the paths / and
\* /health is first submitted to rate_limiter.is_allowed with the client's
\* key before any route logic runs, and a request for which it returns false
\* is denied with 429 without the downstream handler being invoked; requests
\* for / and /health reach the handler without the limiter being consulted.
C23_RequestsCheckedExceptHealth ==
    \A i \in DOMAIN served :
        /\ served[i].checked <=> served[i].path \notin {"/", "/health"}
        /\ served[i].handled => (served[i].allowed \/ ~served[i].checked)
        /\ (served[i].checked /\ ~served[i].allowed)
           => (served[i].status = "429" /\ ~served[i].handled)

\* a client was turned away with 429 and afterwards its health check
\* reached the handler, its log still full
C23_Witness ==
    \E i, j \in DOMAIN served :
        /\ i < j
        /\ served[i].client = served[j].client
        /\ served[i].status = "429"
        /\ served[j].path = "/health" /\ served[j].handled
        /\ Len(LogOf(requests, served[i].client)) = max_requests

(* ------------------------------------------------------------------ *)
(* Properties of the rate limiter (sequential callers, Spec)            *)
(* ------------------------------------------------------------------ *)
\* the completed calls made with key k, in call order
KeyCalls(k) == SelectSeq(calls, LAMBDA c : c.key = k)

\* C1: after any sequence of is_allowed calls, every key's retained log
\* holds at most max_requests timestamps.
C1_RetainedAtMostMax ==
    \A k \in DOMAIN requests : Len(requests[k]) <= max_requests

\* the limit has been reached by some key and a call was turned away
C1_Witness ==
    \E i \in DOMAIN calls :
        /\ ~calls[i].result
        /\ Len(requests[calls[i].key]) = max_requests

\* C3: of the first max_requests + 1 calls made with one key, when the
\* last of them comes less than window_seconds after the first, the first
\* max_requests return TRUE and the last returns FALSE.
C3_QuotaThenReject ==
    \A k \in Keys :
        LET kc == KeyCalls(k)
        IN  (/\ Len(kc) >= max_requests + 1
             /\ kc[max_requests + 1].now - kc[1].now < window_seconds)
            => /\ \A i \in 1..max_requests : kc[i].result
               /\ ~kc[max_requests + 1].result

\* max_requests + 1 calls on one key inside one window, spread over time
C3_Witness ==
    \E k \in Keys :
        LET kc == KeyCalls(k)
        IN  /\ Len(kc) >= max_requests + 1
            /\ kc[max_requests + 1].now - kc[1].now < window_seconds
            /\ kc[max_requests + 1].now > kc[1].now
            /\ ~kc[max_requests + 1].result

\* call i comes after a rejection of the same key
AfterRejection(i) ==
    \E j \in 1..(i - 1) : calls[j].key = calls[i].key /\ ~calls[j].result

\* C4: once a key was rejected, a call made when the oldest retained
\* admission is at least window_seconds old (exactly window_seconds
\* included) returns TRUE.
C4_AdmittedAfterWindow ==
    \A i \in DOMAIN calls :
        (/\ AfterRejection(i)
         /\ calls[i].pre # << >>
         /\ calls[i].now - calls[i].pre[1] >= window_seconds)
        => calls[i].result

\* a rejected key is called again exactly window_seconds after its oldest
\* retained admission, with a full log, and is admitted
C4_Witness ==
    \E i \in DOMAIN calls :
        /\ AfterRejection(i)
        /\ Len(calls[i].pre) = max_requests
        /\ calls[i].now - calls[i].pre[1] = window_seconds
        /\ calls[i].result

\* results is_allowed gives when only the calls with key k of a history
\* are made, starting from an empty limiter
RECURSIVE ReplayKey(_, _, _)
ReplayKey(hist, k, reqs) ==
    IF hist = << >> THEN << >>
    ELSE LET h == Head(hist)
         IN  IF h.key # k THEN ReplayKey(Tail(hist), k, reqs)
             ELSE LET r == is_allowed(reqs, k, h.now)
                  IN  <<r.result>> \o ReplayKey(Tail(hist), k, r.requests)

\* the results recorded for key k
ResultsOf(k) == [i \in DOMAIN KeyCalls(k) |-> KeyCalls(k)[i].result]

\* a call with one key leaves the log of every other key as it was
OtherKeysUntouched ==
    \A k \in Keys :
        (calls' # calls /\ calls'[Len(calls')].key # k)
        => LogOf(requests', k) = LogOf(requests, k)

\* C5: admission state is independent per key: a call with key k1 leaves
\* the log of every k2 # k1 unchanged, and the results of the calls with
\* key k2 are those the same k2 calls give on a limiter that never saw
\* another key.
C5_KeysIndependent ==
    /\ [](\A k \in Keys : ResultsOf(k) = ReplayKey(calls, k, << >>))
    /\ [][OtherKeysUntouched]_vars

\* one key's quota is exhausted (a rejection) and a later call with
\* another key, made while the first key's log is full, is admitted
C5_Witness ==
    \E i, j \in DOMAIN calls :
        /\ i < j
        /\ calls[i].key # calls[j].key
        /\ ~calls[i].result
        /\ calls[j].result
        /\ Len(LogOf(requests, calls[i].key)) = max_requests

\* C26: a rejected is_allowed call leaves the key's log equal to the pruned
\* log (the entries younger than window_seconds, in their order) with
\* nothing appended; an admitted call appends exactly the current time.
C26_RejectionAddsNothing ==
    \A i \in DOMAIN calls :
        LET c == calls[i]
            young == SelectSeq(c.pre, LAMBDA t : c.now - t < window_seconds)
        IN  /\ ~c.result => c.post = young
            /\ c.result => c.post = young \o <<c.now>>

\* a call was rejected with a full log, and a call was admitted after
\* pruning had made room in a full log
C26_Witness ==
    \E i, j \in DOMAIN calls :
        /\ ~calls[i].result
        /\ Len(calls[i].post) = max_requests
        /\ calls[j].result
        /\ Len(calls[j].pre) = max_requests
        /\ calls[j].post[Len(calls[j].post)] = calls[j].now

====
